---- MODULE Spec2Model ----
(***************************************************************************)
(* NetMark: the stress-test metrics layer of Server_regNoSend.py (request  *)
(* interceptor, test controller, reducer, CSV report sink) and the load    *)
(* generator load_test.py (LoadTester).                                    *)
(*                                                                         *)
(* Time is an integer clock `now` (one tick of time.perf_counter()); every *)
(* duration is a difference of two clock readings.  Rational results       *)
(* (means, rates) are kept exact as reduced fractions <<num, den>>.        *)
(***************************************************************************)
EXTENDS Integers, Sequences, FiniteSets, TLC

\* ------------------------------------------------------------------ bounds
\* request slots served concurrently by the threaded server
MaxInFlight == 2
\* requests accepted over a run of the concurrent server
MaxArrivals == 3
\* requests accepted over a run of the one-at-a-time server
MaxArrivalsSeq == 4
\* last reading of the clock
MaxClock == 2
\* requests accepted over a long run of the one-at-a-time server
MaxArrivalsLong == 6
\* simulated users, and requests per user, of a generator run
MaxSimUsers == 2
MaxRequestsPerUser == 2
\* longest duration sequence handed to the reducers on their own
MaxSampleLen == 101
\* most failed requests of a run handed to main on its own
MaxErrors == 102

\* ------------------------------------------------------- program constants
MinUsers == 1
MaxUsers == 1000
DefaultUsers == 10
ErrorStatus == 400
MsPerSecond == 1000
\* error records print_report lists, and error records save_report keeps
PrintedErrors == 5
SavedErrors == 100

NoneTime == -1

\* ---------------------------------------------------------------- helpers
RECURSIVE GCD(_, _)
GCD(a, b) == IF b = 0 THEN a ELSE GCD(b, a % b)

\* the exact value num/den (den > 0, num >= 0) as a reduced fraction
Frac(num, den) == LET g == GCD(num, den) IN <<num \div g, den \div g>>

Max2(a, b) == IF a >= b THEN a ELSE b

RECURSIVE SumSeq(_)
SumSeq(s) == IF s = <<>> THEN 0 ELSE Head(s) + SumSeq(Tail(s))

RECURSIVE Pow10(_)
Pow10(d) == IF d = 0 THEN 1 ELSE 10 * Pow10(d - 1)

\* f"{x:.<d>f}" of x = fr[1]/fr[2]: the value scaled by 10^d and rounded to
\* the nearest integer, ties to even
FormatFixed(fr, d) ==
    LET x == fr[1] * Pow10(d)
        q == x \div fr[2]
        r == x % fr[2]
    IN  IF 2 * r < fr[2] THEN q
        ELSE IF 2 * r > fr[2] THEN q + 1
        ELSE IF q % 2 = 0 THEN q ELSE q + 1

\* sorted(times): the ascending rearrangement of times
SortedSeq(times) ==
    LET n == Len(times)
        vals == {times[i] : i \in 1..n}
        upto == [v \in vals |-> Cardinality({i \in 1..n : times[i] <= v})]
    IN  [k \in 1..n |->
            CHOOSE v \in vals : k <= upto[v] /\ \A w \in vals : w < v => upto[w] < k]

MinSeq(times) == CHOOSE v \in {times[i] : i \in 1..Len(times)} :
                    \A i \in 1..Len(times) : v <= times[i]
MaxSeq(times) == CHOOSE v \in {times[i] : i \in 1..Len(times)} :
                    \A i \in 1..Len(times) : v >= times[i]

\* the lower of the two middle elements for an even n
MedianLower(times) == SortedSeq(times)[((Len(times) - 1) \div 2) + 1]

\* a p99 rank taken at nine tenths of n
P99IndexTenths(n) == (n * 9) \div 10

\* int(n * 0.95) and int(n * 0.99): the product is a double, truncated; for
\* every n below 200000 the double product truncates to the exact floor
P95Index(n) == (n * 95) \div 100
P99Index(n) == (n * 99) \div 100

\* times_sorted[int(n * 0.95)] if n > 1 else times[0]   (0-based in the code)
P95Value(times) ==
    LET n == Len(times)
    IN  IF n > 1 THEN SortedSeq(times)[P95Index(n) + 1] ELSE times[1]
P99Value(times) ==
    LET n == Len(times)
    IN  IF n > 1 THEN SortedSeq(times)[P99Index(n) + 1] ELSE times[1]

\* times_sorted[n // 2]
MedianValue(times) == SortedSeq(times)[(Len(times) \div 2) + 1]

\* sum((t - mean) ** 2 for t in times) / n with mean = sum(times) / n, exact:
\* (n * sum(t^2) - sum(t)^2) / n^2
Variance(times) ==
    LET n == Len(times)
        s == SumSeq(times)
        sq == SumSeq([i \in 1..n |-> times[i] * times[i]])
    IN  Frac(n * sq - s * s, n * n)

\* ------------------------------------------- the metrics dict (ordered map)
\* _scalability_metrics['response_times'] is a defaultdict(list): a sequence
\* of [endpoint, times] entries in insertion order.
HasKey(d, e) == \E i \in DOMAIN d : d[i].endpoint = e

\* d[e].append(v), creating the key on first use
DictAppend(d, e, v) ==
    IF HasKey(d, e)
    THEN [i \in DOMAIN d |->
            IF d[i].endpoint = e
            THEN [d[i] EXCEPT !.times = Append(@, v)] ELSE d[i]]
    ELSE Append(d, [endpoint |-> e, times |-> <<v>>])

SampleCount(d) == SumSeq([i \in DOMAIN d |-> Len(d[i].times)])


\* ----------------------------------------------------------------- state
VARIABLES
    \* _scalability_metrics (Server_regNoSend.py)
    response_times, concurrent_requests, total_requests, failed_requests,
    start_time, test_active,
    \* _metrics_lock: 0 when free, else the request holding it
    metrics_lock,
    \* the clock read by time.perf_counter() and datetime.now()
    now,
    \* the requests in flight, one record per server thread
    req,
    \* number of requests accepted so far
    arrived,
    \* SCALABILITY_METRICS_FILE: whether it exists, and its rows
    csv_exists, csv_rows,
    \* the body of the last /scalability_report and /scalability_metrics reply
    last_report, last_metrics,
    \* history: the reports whose rows were written to the file, in order
    report_log,
    \* history: how far the handled requests match stop, report, stop
    trail,
    \* history: per endpoint, the samples of this run whose status was >= 400
    failed_samples

collectorVars == <<response_times, concurrent_requests, total_requests,
                   failed_requests, start_time, test_active>>
serverVars == <<response_times, concurrent_requests, total_requests,
                failed_requests, start_time, test_active, metrics_lock, now,
                req, arrived, csv_exists, csv_rows, last_report, last_metrics,
                report_log, trail, failed_samples>>

Slots == 1..MaxInFlight

Endpoints == {"start_stress_test", "stop_stress_test", "get_scalability_metrics",
              "generate_scalability_report", "get_attendance_stats"}

\* the JSON body of a request: <<>> when it carries no concurrentUsers field
Payloads(e) ==
    IF e = "start_stress_test"
    THEN {<<>>, <<MinUsers - 1>>, <<MinUsers>>, <<MaxUsers>>, <<MaxUsers + 1>>}
    ELSE {<<>>}

\* the statuses get_attendance_stats returns
AttendanceStatuses == {200, 404, 500}

\* a free thread; entered_active, entered_at, samples and entered_before_reset
\* are history: whether the test was active when the request entered, the
\* clock at its entry, the samples appended on its behalf, and whether an
\* accepted start-test has reset the metrics since it entered
IdleReq == [pc |-> "idle", endpoint |-> "", payload |-> <<>>,
            has_start_time |-> FALSE, start_time |-> NoneTime,
            response_time |-> NoneTime, status_code |-> 0,
            entered_active |-> FALSE, entered_at |-> NoneTime, samples |-> 0,
            entered_before_reset |-> FALSE]

NoReply == [status_code |-> 0]

\* run_test's None
NoStats == [none |-> TRUE]

\* a file that was not written
NoFile == [absent |-> TRUE]

\* Python truthiness of _scalability_metrics['start_time']
Truthy(t) == t # NoneTime /\ t # 0

InitServer ==
    /\ response_times = <<>>
    /\ concurrent_requests = 0
    /\ total_requests = 0
    /\ failed_requests = 0
    /\ start_time = NoneTime
    /\ test_active = FALSE
    /\ metrics_lock = 0
    /\ now = 1
    /\ req = [r \in Slots |-> IdleReq]
    /\ arrived = 0
    /\ csv_exists = FALSE
    /\ csv_rows = <<>>
    /\ last_report = NoReply
    /\ last_metrics = NoReply
    /\ report_log = <<>>
    /\ trail = ""
    /\ failed_samples = [e \in Endpoints |-> 0]

\* ------------------------------------------------------------ the reducer
\* concurrentUsers of a start request: int(data.get('concurrentUsers', 10))
ConcurrentUsersOf(payload) == IF payload = <<>> THEN DefaultUsers ELSE payload[1]

\* concurrent_users < 1 or concurrent_users > 1000
OutOfRange(cu) == cu < MinUsers \/ cu > MaxUsers

\* (total_requests - failed_requests) / max(total_requests, 1)
SuccessRate(total, failed) == Frac(total - failed, Max2(total, 1))

\* time.perf_counter() - start_time if start_time else 0
ElapsedTime(st, t) == IF Truthy(st) THEN t - st ELSE 0

\* one endpoint's entry of /scalability_metrics
MetricsEntry(times) ==
    LET n == Len(times)
    IN  [total_requests |-> n,
         mean_response_time |-> Frac(SumSeq(times), n),
         median_response_time |-> IF n > 0 THEN MedianValue(times) ELSE 0,
         min_response_time |-> MinSeq(times),
         max_response_time |-> MaxSeq(times),
         p95_response_time |-> P95Value(times),
         p99_response_time |-> P99Value(times)]

\* one endpoint's entry of /scalability_report; std_dev_ms is the square root
\* of variance, times 1000
ReportEntry(times, elapsed, failed) ==
    LET n == Len(times)
    IN  [total_requests |-> n,
         mean_response_time_ms |-> Frac(SumSeq(times) * MsPerSecond, n),
         median_response_time_ms |-> MedianValue(times) * MsPerSecond,
         variance |-> Variance(times),
         min_response_time_ms |-> MinSeq(times) * MsPerSecond,
         max_response_time_ms |-> MaxSeq(times) * MsPerSecond,
         p95_response_time_ms |-> P95Value(times) * MsPerSecond,
         p99_response_time_ms |-> P99Value(times) * MsPerSecond,
         throughput_rps |-> IF elapsed > 0 THEN Frac(n, elapsed) ELSE <<0, 1>>,
         error_rate |-> Frac(failed, Max2(n, 1))]

\* the entries with samples, in dict order ("if times:")
NonEmptyEntries(d) == SelectSeq(d, LAMBDA x : x.times # <<>>)

MetricsBody ==
    LET d == NonEmptyEntries(response_times)
    IN  [status_code |-> 200,
         concurrent_users |-> concurrent_requests,
         total_requests |-> total_requests,
         failed_requests |-> failed_requests,
         success_rate |-> SuccessRate(total_requests, failed_requests),
         test_active |-> test_active,
         endpoint_metrics |->
            [i \in DOMAIN d |-> [endpoint |-> d[i].endpoint,
                                 metrics |-> MetricsEntry(d[i].times)]],
         elapsed_time |-> ElapsedTime(start_time, now)]

ReportBody ==
    LET d == NonEmptyEntries(response_times)
        elapsed == ElapsedTime(start_time, now)
    IN  [status_code |-> 200,
         timestamp |-> now,
         test_summary |->
            [concurrent_users |-> concurrent_requests,
             total_requests |-> total_requests,
             failed_requests |-> failed_requests,
             success_rate |-> SuccessRate(total_requests, failed_requests),
             elapsed_time |-> elapsed],
         endpoint_analysis |->
            [i \in DOMAIN d |->
                [endpoint |-> d[i].endpoint,
                 metrics |-> ReportEntry(d[i].times, elapsed, failed_requests)]]]

\* a report handler whose no-data check never fires
NoMetricsCollectedNever(d) == FALSE

\* "if not _scalability_metrics['response_times']": the dict has no key
NoMetricsCollected(d) == d = <<>>

\* -------------------------------------------------------- the report sink
HeaderRow == [header |-> <<"Timestamp", "Endpoint", "Concurrent Users",
                           "Total Requests", "Failed Requests", "Success Rate",
                           "Mean Response Time (ms)", "Median Response Time (ms)",
                           "P95 Response Time (ms)", "P99 Response Time (ms)",
                           "Throughput (req/s)", "Error Rate">>]

\* the data rows of one report, one per endpoint, numbers formatted as written
ReportRows(report) ==
    [i \in DOMAIN report.endpoint_analysis |->
        LET a == report.endpoint_analysis[i]
            m == a.metrics
        IN  [timestamp |-> report.timestamp,
             endpoint |-> a.endpoint,
             concurrent_users |-> report.test_summary.concurrent_users,
             total_requests |-> m.total_requests,
             failed_requests |-> report.test_summary.failed_requests,
             success_rate |-> FormatFixed(report.test_summary.success_rate, 4),
             mean_ms |-> FormatFixed(m.mean_response_time_ms, 3),
             median_ms |-> FormatFixed(<<m.median_response_time_ms, 1>>, 3),
             p95_ms |-> FormatFixed(<<m.p95_response_time_ms, 1>>, 3),
             p99_ms |-> FormatFixed(<<m.p99_response_time_ms, 1>>, 3),
             throughput |-> FormatFixed(m.throughput_rps, 2),
             error_rate |-> FormatFixed(m.error_rate, 4)]]

\* the file opened with 'w': each report overwrites the one before
AppendReportTruncating(exists, rows, report) ==
    (IF exists THEN <<>> ELSE <<HeaderRow>>) \o ReportRows(report)

\* open(SCALABILITY_METRICS_FILE, 'a'): header if the file is new, then the rows
AppendReport(exists, rows, report) ==
    rows \o (IF exists THEN <<>> ELSE <<HeaderRow>>) \o ReportRows(report)


\* ------------------------------------------------ state of the generator
VARIABLES
    \* arguments of LoadTester.run_test
    concurrent_users, requests_per_user, use_server_tracking,
    \* where run_test is: "start", "spawn", "join", "stop", "stats", "done"
    run_pc,
    \* the user threads: [pc, i, request_start, outcome, elapsed]
    users,
    \* self.results['response_times'], self.results['status_codes'], self.errors
    results_response_times, results_status_codes, errors,
    \* self.lock: 0 when free, else 1 + the user_id holding it
    tester_lock,
    \* run_test's start_time (perf_counter) and total_time
    run_start_time, total_time,
    \* self.log_buffer, one tag per message that matters here
    log_buffer,
    \* what run_test returned: NoStats (None) or the stats dict
    stats,
    \* history: the outcome of the network call of each request_id
    outcomes,
    \* the results file (args.output) and the log file, NoFile until written
    saved_results, saved_log

genVars == <<concurrent_users, requests_per_user, use_server_tracking, run_pc,
             users, results_response_times, results_status_codes, errors,
             tester_lock, run_start_time, total_time, log_buffer, stats,
             outcomes, saved_results, saved_log>>

\* ------------------------------------ state of the reducer taken on its own
VARIABLES
    \* a duration sequence handed to the reducers
    sample_times,
    \* what the three reducers made of it
    sample_stats

statVars == <<sample_times, sample_stats>>

vars == <<serverVars, genVars, statVars>>


\* ------------------------------------------------- the server's operations
\* the clock advances
Tick ==
    /\ now < MaxClock
    /\ now' = now + 1
    /\ UNCHANGED <<collectorVars, metrics_lock, req, arrived, csv_exists,
                   csv_rows, last_report, last_metrics, report_log, trail,
                   failed_samples>>
    /\ UNCHANGED <<genVars, statVars>>

\* history: the match of stop, report, stop after endpoint e was handled
TrailAfter(e) ==
    IF e = "stop_stress_test" THEN (IF trail = "SR" THEN "SRS" ELSE "S")
    ELSE IF e = "generate_scalability_report"
         THEN (IF trail \in {"S", "SRS"} THEN "SR" ELSE "")
         ELSE ""

\* an interceptor keeping the entry timestamp in one shared field: the entry
\* of a request overwrites the timestamp of the stamped requests in flight
BeforeRequestSharedStamp(r, e, p, limit) ==
    /\ arrived < limit
    /\ req[r].pc = "idle"
    /\ \A q \in Slots : q < r => req[q].pc # "idle"
    /\ req' = [q \in Slots |->
                IF q = r
                THEN [pc |-> "view", endpoint |-> e, payload |-> p,
                      has_start_time |-> test_active,
                      start_time |-> IF test_active THEN now ELSE NoneTime,
                      response_time |-> NoneTime, status_code |-> 0,
                      entered_active |-> test_active, entered_at |-> now,
                      samples |-> 0, entered_before_reset |-> FALSE]
                ELSE IF test_active /\ req[q].has_start_time
                     THEN [req[q] EXCEPT !.start_time = now]
                     ELSE req[q]]
    /\ arrived' = arrived + 1
    /\ UNCHANGED <<collectorVars, metrics_lock, now, csv_exists, csv_rows,
                   last_report, last_metrics, report_log, trail, failed_samples>>
    /\ UNCHANGED <<genVars, statVars>>

\* before_request on a request for endpoint e with JSON body p: it is
\* stamped if a test is active, and goes on to its view function
EnteredRequest(e, p) ==
    [pc |-> "view", endpoint |-> e, payload |-> p,
     has_start_time |-> test_active,
     start_time |-> IF test_active THEN now ELSE NoneTime,
     response_time |-> NoneTime, status_code |-> 0,
     entered_active |-> test_active, entered_at |-> now,
     samples |-> 0, entered_before_reset |-> FALSE]

\* a request for endpoint e with JSON body p reaches the server, is given the
\* first free thread, and before_request stamps it if a test is active; at
\* most `limit` requests are accepted
BeforeRequest(r, e, p, limit) ==
    /\ arrived < limit
    /\ req[r].pc = "idle"
    /\ \A q \in Slots : q < r => req[q].pc # "idle"
    /\ req' = [req EXCEPT ![r] = EnteredRequest(e, p)]
    /\ arrived' = arrived + 1
    /\ UNCHANGED <<collectorVars, metrics_lock, now, csv_exists, csv_rows,
                   last_report, last_metrics, report_log, trail, failed_samples>>
    /\ UNCHANGED <<genVars, statVars>>

\* the view function has returned status st
Respond(r, st) ==
    req' = [req EXCEPT ![r] = [@ EXCEPT !.status_code = st, !.pc = "after_request"]]

\* the view function of start_stress_test has returned 200 after its reset:
\* every request in flight, this one included, entered before that reset
RespondAfterReset(r) ==
    req' = [q \in Slots |->
                IF q = r
                THEN [req[q] EXCEPT !.status_code = 200, !.pc = "after_request",
                                    !.entered_before_reset = TRUE]
                ELSE IF req[q].pc # "idle"
                     THEN [req[q] EXCEPT !.entered_before_reset = TRUE]
                     ELSE req[q]]

\* a reset that forgets to zero total_requests
ResetMetricsKeepingTotal(cu) ==
    /\ response_times' = <<>>
    /\ concurrent_requests' = cu
    /\ total_requests' = total_requests
    /\ failed_requests' = 0
    /\ start_time' = now
    /\ test_active' = TRUE

\* the critical section of start_stress_test
ResetMetrics(cu) ==
    /\ response_times' = <<>>
    /\ concurrent_requests' = cu
    /\ total_requests' = 0
    /\ failed_requests' = 0
    /\ start_time' = now
    /\ test_active' = TRUE

\* start_stress_test
StartStressTest(r) ==
    /\ req[r].pc = "view"
    /\ req[r].endpoint = "start_stress_test"
    /\ LET cu == ConcurrentUsersOf(req[r].payload)
       IN  IF OutOfRange(cu)
           THEN /\ Respond(r, 400)
                /\ UNCHANGED <<collectorVars, failed_samples>>
           ELSE /\ metrics_lock = 0
                /\ ResetMetrics(cu)
                /\ failed_samples' = [e \in Endpoints |-> 0]
                /\ RespondAfterReset(r)
    /\ trail' = TrailAfter(req[r].endpoint)
    /\ UNCHANGED <<metrics_lock, now, arrived, csv_exists, csv_rows,
                   last_report, last_metrics, report_log>>
    /\ UNCHANGED <<genVars, statVars>>

\* the reply of stop_stress_test: its status code and the status field of
\* its JSON body
StopReply == [status_code |-> 200, status |-> "stopped"]

\* a stop that also discards the samples
StopStressTestClearing(r) ==
    /\ req[r].pc = "view"
    /\ req[r].endpoint = "stop_stress_test"
    /\ metrics_lock = 0
    /\ test_active' = FALSE
    /\ response_times' = <<>>
    /\ Respond(r, StopReply.status_code)
    /\ trail' = TrailAfter(req[r].endpoint)
    /\ UNCHANGED <<concurrent_requests, total_requests, failed_requests,
                   start_time>>
    /\ UNCHANGED <<metrics_lock, now, arrived, csv_exists, csv_rows,
                   last_report, last_metrics, report_log, failed_samples>>
    /\ UNCHANGED <<genVars, statVars>>

\* stop_stress_test
StopStressTest(r) ==
    /\ req[r].pc = "view"
    /\ req[r].endpoint = "stop_stress_test"
    /\ metrics_lock = 0
    /\ test_active' = FALSE
    /\ Respond(r, StopReply.status_code)
    /\ trail' = TrailAfter(req[r].endpoint)
    /\ UNCHANGED <<response_times, concurrent_requests, total_requests,
                   failed_requests, start_time>>
    /\ UNCHANGED <<metrics_lock, now, arrived, csv_exists, csv_rows,
                   last_report, last_metrics, report_log, failed_samples>>
    /\ UNCHANGED <<genVars, statVars>>

\* a metrics handler that reads the live state without taking _metrics_lock
GetScalabilityMetricsUnlocked(r) ==
    /\ req[r].pc = "view"
    /\ req[r].endpoint = "get_scalability_metrics"
    /\ last_metrics' = MetricsBody
    /\ Respond(r, 200)
    /\ trail' = TrailAfter(req[r].endpoint)
    /\ UNCHANGED <<collectorVars, metrics_lock, now, arrived, csv_exists,
                   csv_rows, last_report, report_log, failed_samples>>
    /\ UNCHANGED <<genVars, statVars>>

\* get_scalability_metrics
GetScalabilityMetrics(r) ==
    /\ req[r].pc = "view"
    /\ req[r].endpoint = "get_scalability_metrics"
    /\ metrics_lock = 0
    /\ last_metrics' = MetricsBody
    /\ Respond(r, 200)
    /\ trail' = TrailAfter(req[r].endpoint)
    /\ UNCHANGED <<collectorVars, metrics_lock, now, arrived, csv_exists,
                   csv_rows, last_report, report_log, failed_samples>>
    /\ UNCHANGED <<genVars, statVars>>

\* _save_scalability_report: io_ok is whether the file could be opened; a
\* failure is logged and swallowed
SaveScalabilityReport(report, io_ok) ==
    IF io_ok
    THEN /\ csv_rows' = AppendReport(csv_exists, csv_rows, report)
         /\ csv_exists' = TRUE
         /\ report_log' = Append(report_log, report)
    ELSE UNCHANGED <<csv_exists, csv_rows, report_log>>

\* generate_scalability_report
GenerateScalabilityReport(r) ==
    /\ req[r].pc = "view"
    /\ req[r].endpoint = "generate_scalability_report"
    /\ metrics_lock = 0
    /\ IF NoMetricsCollected(response_times)
       THEN /\ last_report' = [status_code |-> 400]
            /\ Respond(r, 400)
            /\ UNCHANGED <<csv_exists, csv_rows, report_log>>
       ELSE /\ last_report' = ReportBody
            /\ \E io_ok \in BOOLEAN : SaveScalabilityReport(ReportBody, io_ok)
            /\ Respond(r, 200)
    /\ trail' = TrailAfter(req[r].endpoint)
    /\ UNCHANGED <<collectorVars, metrics_lock, now, arrived, last_metrics,
                   failed_samples>>
    /\ UNCHANGED <<genVars, statVars>>

\* get_attendance_stats, an ordinary endpoint: it answers 200, 404 or 500
GetAttendanceStats(r) ==
    /\ req[r].pc = "view"
    /\ req[r].endpoint = "get_attendance_stats"
    /\ \E st \in AttendanceStatuses : Respond(r, st)
    /\ trail' = TrailAfter(req[r].endpoint)
    /\ UNCHANGED <<collectorVars, metrics_lock, now, arrived, csv_exists,
                   csv_rows, last_report, last_metrics, report_log,
                   failed_samples>>
    /\ UNCHANGED <<genVars, statVars>>

\* an exit hook that does not ask whether the request was stamped on entry
AfterRequestIgnoringEntry(r) ==
    /\ req[r].pc = "after_request"
    /\ req' = [req EXCEPT ![r] =
                IF test_active
                THEN [@ EXCEPT !.response_time = now - req[r].start_time,
                               !.pc = "append"]
                ELSE IdleReq]
    /\ UNCHANGED <<collectorVars, metrics_lock, now, arrived, csv_exists,
                   csv_rows, last_report, last_metrics, report_log, trail,
                   failed_samples>>
    /\ UNCHANGED <<genVars, statVars>>

\* after_request, up to the lock: the unlocked read of test_active and the
\* elapsed time; an untracked request returns its response at once
AfterRequest(r) ==
    /\ req[r].pc = "after_request"
    /\ req' = [req EXCEPT ![r] =
                IF test_active /\ req[r].has_start_time
                THEN [@ EXCEPT !.response_time = now - req[r].start_time,
                               !.pc = "append"]
                ELSE IdleReq]
    /\ UNCHANGED <<collectorVars, metrics_lock, now, arrived, csv_exists,
                   csv_rows, last_report, last_metrics, report_log, trail,
                   failed_samples>>
    /\ UNCHANGED <<genVars, statVars>>

\* after_request: take _metrics_lock and append the sample
AfterRequestAppend(r) ==
    /\ req[r].pc = "append"
    /\ metrics_lock = 0
    /\ metrics_lock' = r
    /\ response_times' = DictAppend(response_times, req[r].endpoint,
                                    req[r].response_time)
    /\ req' = [req EXCEPT ![r] = [@ EXCEPT !.pc = "count",
                                            !.samples = @ + 1]]
    /\ trail' = ""
    /\ UNCHANGED <<concurrent_requests, total_requests, failed_requests,
                   start_time, test_active>>
    /\ UNCHANGED <<now, arrived, csv_exists, csv_rows, last_report,
                   last_metrics, report_log, failed_samples>>
    /\ UNCHANGED <<genVars, statVars>>

\* after_request: update the counters, release the lock, return the response
AfterRequestCount(r) ==
    /\ req[r].pc = "count"
    /\ metrics_lock = r
    /\ total_requests' = total_requests + 1
    /\ failed_requests' = failed_requests +
                            (IF req[r].status_code >= ErrorStatus THEN 1 ELSE 0)
    /\ failed_samples' =
            [failed_samples EXCEPT ![req[r].endpoint] =
                @ + (IF req[r].status_code >= ErrorStatus THEN 1 ELSE 0)]
    /\ metrics_lock' = 0
    /\ req' = [req EXCEPT ![r] = IdleReq]
    /\ UNCHANGED <<response_times, concurrent_requests, start_time, test_active>>
    /\ UNCHANGED <<now, arrived, csv_exists, csv_rows, last_report,
                   last_metrics, report_log, trail>>
    /\ UNCHANGED <<genVars, statVars>>

\* ------------------------------------------------- states outside a spec's part
IdleGenerator ==
    /\ concurrent_users = 0
    /\ requests_per_user = 0
    /\ use_server_tracking = FALSE
    /\ run_pc = "idle"
    /\ users = <<>>
    /\ results_response_times = <<>>
    /\ results_status_codes = <<>>
    /\ errors = <<>>
    /\ tester_lock = 0
    /\ run_start_time = NoneTime
    /\ total_time = NoneTime
    /\ log_buffer = <<>>
    /\ stats = NoStats
    /\ outcomes = <<>>
    /\ saved_results = NoFile
    /\ saved_log = NoFile

IdleReducer ==
    /\ sample_times = <<>>
    /\ sample_stats = <<>>

\* ------------------------------------------------------ the server, threaded
Init == InitServer /\ IdleGenerator /\ IdleReducer

Next ==
    \/ Tick
    \/ \E r \in Slots, e \in Endpoints : \E p \in Payloads(e) :
            BeforeRequest(r, e, p, MaxArrivals)
    \/ \E r \in Slots : StartStressTest(r)
    \/ \E r \in Slots : StopStressTest(r)
    \/ \E r \in Slots : GetScalabilityMetrics(r)
    \/ \E r \in Slots : GenerateScalabilityReport(r)
    \/ \E r \in Slots : GetAttendanceStats(r)
    \/ \E r \in Slots : AfterRequest(r)
    \/ \E r \in Slots : AfterRequestAppend(r)
    \/ \E r \in Slots : AfterRequestCount(r)

Spec == Init /\ [][Next]_vars

\* --------------------------------------- the server, one request at a time
NextSeq ==
    \/ Tick
    \/ \E e \in Endpoints : \E p \in Payloads(e) :
            BeforeRequest(1, e, p, MaxArrivalsSeq)
    \/ StartStressTest(1)
    \/ StopStressTest(1)
    \/ GetScalabilityMetrics(1)
    \/ GenerateScalabilityReport(1)
    \/ GetAttendanceStats(1)
    \/ AfterRequest(1)
    \/ AfterRequestAppend(1)
    \/ AfterRequestCount(1)

SpecSeq == Init /\ [][NextSeq]_vars


\* ------------------------------------------------ the generator's reducer
\* statistics.median: the middle element, or the mean of the two middle ones
StatisticsMedian(times) ==
    LET n == Len(times)
        srt == SortedSeq(times)
    IN  IF n % 2 = 1 THEN <<srt[(n \div 2) + 1], 1>>
        ELSE Frac(srt[n \div 2] + srt[(n \div 2) + 1], 2)

\* statistics.stdev squared: the sample variance, sum of squared deviations
\* over n - 1, exact: (n * sum(t^2) - sum(t)^2) / (n * (n - 1))
StatisticsVariance(times) ==
    LET n == Len(times)
        s == SumSeq(times)
        sq == SumSeq([i \in 1..n |-> times[i] * times[i]])
    IN  Frac(n * sq - s * s, n * (n - 1))

\* sum(1 for sc in status_codes if sc < 400)
CountSuccessful(status_codes) ==
    Cardinality({i \in DOMAIN status_codes : status_codes[i] < ErrorStatus})

\* the statistics run_test returns; std_dev_ms is the square root of
\* variance, times 1000
RunStats(times, status_codes, tt) ==
    LET n == Len(times)
        successful == CountSuccessful(status_codes)
        med == StatisticsMedian(times)
    IN  IF times # <<>>
        THEN [total_requests |-> n,
              successful_requests |-> successful,
              failed_requests |-> n - successful,
              success_rate |-> IF n > 0 THEN Frac(successful, n) ELSE <<0, 1>>,
              total_time_seconds |-> tt,
              throughput_rps |-> IF tt > 0 THEN Frac(n, tt) ELSE <<0, 1>>,
              mean_response_time_ms |-> Frac(SumSeq(times) * MsPerSecond, n),
              median_response_time_ms |-> Frac(med[1] * MsPerSecond, med[2]),
              min_response_time_ms |-> MinSeq(times) * MsPerSecond,
              max_response_time_ms |-> MaxSeq(times) * MsPerSecond,
              variance |-> IF n > 1 THEN StatisticsVariance(times) ELSE <<0, 1>>,
              p95_response_time_ms |-> P95Value(times) * MsPerSecond,
              p99_response_time_ms |-> P99Value(times) * MsPerSecond]
        ELSE NoStats

\* ---------------------------------------------- the generator's operations
UserIds == 0..(concurrent_users - 1)

\* request_id = user_id * requests_per_user + i
RequestId(u) == u * requests_per_user + users[u].i

UnbornUser == [pc |-> "unborn", i |-> 0, request_start |-> NoneTime,
               elapsed |-> NoneTime, status_code |-> 0]

\* the statuses the target answers a GET with
GetStatuses == {200, 404}

\* the answers to a start or stop signal: 200, a refusal, or 0 for a
\* connection error or timeout (an exception)
SignalReplies == {200, 400, 0}

InitGenerator ==
    /\ concurrent_users \in 0..MaxSimUsers
    /\ requests_per_user \in 0..MaxRequestsPerUser
    /\ use_server_tracking \in BOOLEAN
    /\ run_pc = "start"
    /\ users = [u \in 0..(concurrent_users - 1) |-> UnbornUser]
    /\ results_response_times = <<>>
    /\ results_status_codes = <<>>
    /\ errors = <<>>
    /\ tester_lock = 0
    /\ run_start_time = NoneTime
    /\ total_time = NoneTime
    /\ log_buffer = <<>>
    /\ stats = NoStats
    /\ outcomes = [id \in 0..(concurrent_users * requests_per_user - 1) |-> -1]
    /\ saved_results = NoFile
    /\ saved_log = NoFile

\* run_test, lines 84-98: the start signal, then start_time
SignalStart ==
    /\ run_pc = "start"
    /\ IF use_server_tracking
       THEN \E reply \in SignalReplies :
                /\ use_server_tracking' = (reply # 0)
                /\ log_buffer' =
                     IF reply = 200 THEN Append(log_buffer, "tracking started")
                     ELSE IF reply = 0
                          THEN Append(log_buffer, "could not start tracking")
                          ELSE log_buffer
       ELSE UNCHANGED <<use_server_tracking, log_buffer>>
    /\ run_start_time' = now
    /\ run_pc' = "spawn"
    /\ UNCHANGED <<concurrent_users, requests_per_user, users,
                   results_response_times, results_status_codes, errors,
                   tester_lock, total_time, stats, outcomes>>
    /\ UNCHANGED <<serverVars, statVars, saved_results, saved_log>>

\* thread.start() of the next user, in user_id order
SpawnUser(u) ==
    /\ run_pc = "spawn"
    /\ users[u].pc = "unborn"
    /\ \A v \in UserIds : v < u => users[v].pc # "unborn"
    /\ users' = [users EXCEPT ![u].pc =
                    IF requests_per_user > 0 THEN "loop" ELSE "done"]
    /\ UNCHANGED <<concurrent_users, requests_per_user, use_server_tracking,
                   run_pc, results_response_times, results_status_codes,
                   errors, tester_lock, run_start_time, total_time, log_buffer,
                   stats, outcomes>>
    /\ UNCHANGED <<serverVars, statVars, saved_results, saved_log>>

\* only the thread started first is joined
AllJoinedFirstOnly ==
    IF concurrent_users = 0 THEN TRUE ELSE users[0].pc = "done"

\* only the thread started last is joined
AllJoinedLastOnly ==
    IF concurrent_users = 0 THEN TRUE
    ELSE users[concurrent_users - 1].pc = "done"

\* every thread.join() has returned
AllJoined == \A u \in UserIds : users[u].pc = "done"

\* run_test, lines 117-121: join all the threads, then total_time
JoinAll ==
    /\ run_pc = "spawn"
    /\ AllJoined
    /\ total_time' = now - run_start_time
    /\ run_pc' = "stop"
    /\ UNCHANGED <<concurrent_users, requests_per_user, use_server_tracking,
                   users, results_response_times, results_status_codes, errors,
                   tester_lock, run_start_time, log_buffer, stats, outcomes>>
    /\ UNCHANGED <<serverVars, statVars, saved_results, saved_log>>

\* run_test, lines 123-132: the stop signal
SignalStop ==
    /\ run_pc = "stop"
    /\ IF use_server_tracking
       THEN \E reply \in SignalReplies :
                log_buffer' =
                     IF reply = 200 THEN Append(log_buffer, "tracking stopped")
                     ELSE IF reply = 0
                          THEN Append(log_buffer, "could not stop tracking")
                          ELSE log_buffer
       ELSE UNCHANGED log_buffer
    /\ run_pc' = "stats"
    /\ UNCHANGED <<concurrent_users, requests_per_user, use_server_tracking,
                   users, results_response_times, results_status_codes, errors,
                   tester_lock, run_start_time, total_time, stats, outcomes>>
    /\ UNCHANGED <<serverVars, statVars, saved_results, saved_log>>

\* run_test, lines 138-167: the statistics, returned
ComputeStats ==
    /\ run_pc = "stats"
    /\ stats' = RunStats(results_response_times, results_status_codes, total_time)
    /\ run_pc' = "done"
    /\ UNCHANGED <<concurrent_users, requests_per_user, use_server_tracking,
                   users, results_response_times, results_status_codes, errors,
                   tester_lock, run_start_time, total_time, log_buffer, outcomes>>
    /\ UNCHANGED <<serverVars, statVars, saved_results, saved_log>>

\* make_request: start_time is read and the GET is sent
SendRequest(u) ==
    /\ users[u].pc = "loop"
    /\ users' = [users EXCEPT ![u].pc = "call", ![u].request_start = now]
    /\ UNCHANGED <<concurrent_users, requests_per_user, use_server_tracking,
                   run_pc, results_response_times, results_status_codes,
                   errors, tester_lock, run_start_time, total_time, log_buffer,
                   stats, outcomes>>
    /\ UNCHANGED <<serverVars, statVars, saved_results, saved_log>>

\* make_request: requests.get returned a response with status st
ReceiveResponse(u, st) ==
    /\ users[u].pc = "call"
    /\ users' = [users EXCEPT ![u].pc = "record_time",
                              ![u].elapsed = now - users[u].request_start,
                              ![u].status_code = st]
    /\ outcomes' = [outcomes EXCEPT ![RequestId(u)] = st]
    /\ UNCHANGED <<concurrent_users, requests_per_user, use_server_tracking,
                   run_pc, results_response_times, results_status_codes,
                   errors, tester_lock, run_start_time, total_time, log_buffer,
                   stats>>
    /\ UNCHANGED <<serverVars, statVars, saved_results, saved_log>>

\* make_request: requests.get raised (connection error, timeout)
ReceiveException(u) ==
    /\ users[u].pc = "call"
    /\ users' = [users EXCEPT ![u].pc = "record_error",
                              ![u].elapsed = now - users[u].request_start,
                              ![u].status_code = 0]
    /\ outcomes' = [outcomes EXCEPT ![RequestId(u)] = 0]
    /\ UNCHANGED <<concurrent_users, requests_per_user, use_server_tracking,
                   run_pc, results_response_times, results_status_codes,
                   errors, tester_lock, run_start_time, total_time, log_buffer,
                   stats>>
    /\ UNCHANGED <<serverVars, statVars, saved_results, saved_log>>

\* a user that gives up after a request that failed at the network level
NextIterationStopOnFailure(u) ==
    [users EXCEPT ![u] = [pc |-> IF users[u].i + 1 < requests_per_user
                                    /\ users[u].status_code # 0
                                 THEN "loop" ELSE "done",
                          i |-> users[u].i + 1,
                          request_start |-> NoneTime,
                          elapsed |-> NoneTime,
                          status_code |-> 0]]

\* the user's loop after make_request returned: the next request or the end
NextIteration(u) ==
    [users EXCEPT ![u] = [pc |-> IF users[u].i + 1 < requests_per_user
                                 THEN "loop" ELSE "done",
                          i |-> users[u].i + 1,
                          request_start |-> NoneTime,
                          elapsed |-> NoneTime,
                          status_code |-> 0]]

\* make_request appending the elapsed time without holding self.lock
RecordTimeUnlocked(u) ==
    /\ users[u].pc = "record_time"
    /\ tester_lock' = tester_lock
    /\ results_response_times' = Append(results_response_times, users[u].elapsed)
    /\ users' = [users EXCEPT ![u].pc = "record_status"]
    /\ UNCHANGED <<concurrent_users, requests_per_user, use_server_tracking,
                   run_pc, results_status_codes, errors, run_start_time,
                   total_time, log_buffer, stats, outcomes>>
    /\ UNCHANGED <<serverVars, statVars, saved_results, saved_log>>

\* make_request, line 38-39: take self.lock, append the elapsed time
RecordTime(u) ==
    /\ users[u].pc = "record_time"
    /\ tester_lock = 0
    /\ tester_lock' = u + 1
    /\ results_response_times' = Append(results_response_times, users[u].elapsed)
    /\ users' = [users EXCEPT ![u].pc = "record_status"]
    /\ UNCHANGED <<concurrent_users, requests_per_user, use_server_tracking,
                   run_pc, results_status_codes, errors, run_start_time,
                   total_time, log_buffer, stats, outcomes>>
    /\ UNCHANGED <<serverVars, statVars, saved_results, saved_log>>

\* make_request, lines 40-53: append the status, and an error record for a
\* status of 400 or more; release the lock and return
RecordStatus(u) ==
    /\ users[u].pc = "record_status"
    /\ tester_lock = u + 1
    /\ results_status_codes' = Append(results_status_codes, users[u].status_code)
    /\ errors' = IF users[u].status_code >= ErrorStatus
                 THEN Append(errors, [request_id |-> RequestId(u),
                                      status_code |-> users[u].status_code,
                                      response_time |-> users[u].elapsed])
                 ELSE errors
    /\ tester_lock' = 0
    /\ users' = NextIteration(u)
    /\ UNCHANGED <<concurrent_users, requests_per_user, use_server_tracking,
                   run_pc, results_response_times, run_start_time, total_time,
                   log_buffer, stats, outcomes>>
    /\ UNCHANGED <<serverVars, statVars, saved_results, saved_log>>

\* make_request, lines 54-68: the exception handler appends an error record
\* under the lock, and nothing to self.results
RecordError(u) ==
    /\ users[u].pc = "record_error"
    /\ tester_lock = 0
    /\ errors' = Append(errors, [request_id |-> RequestId(u),
                                 error |-> "exception",
                                 response_time |-> users[u].elapsed])
    /\ users' = NextIteration(u)
    /\ UNCHANGED <<concurrent_users, requests_per_user, use_server_tracking,
                   run_pc, results_response_times, results_status_codes,
                   tester_lock, run_start_time, total_time, log_buffer, stats,
                   outcomes>>
    /\ UNCHANGED <<serverVars, statVars, saved_results, saved_log>>

\* ------------------------------------------------ main, after run_test
\* self.errors[:cap]
FirstErrors(errs, cap) ==
    SubSeq(errs, 1, IF Len(errs) < cap THEN Len(errs) ELSE cap)

\* the tags print_report logs: the results, then, when there are errors,
\* the first PrintedErrors of them and "... and k more errors" beyond that
PrintReportLog(errs) ==
    <<"results printed">>
    \o (IF errs # <<>> THEN <<"errors listed">> ELSE <<>>)
    \o (IF Len(errs) > PrintedErrors THEN <<"more errors">> ELSE <<>>)

\* the dict save_report dumps as JSON
ReportFile(st, errs) ==
    [timestamp |-> now,
     test_config |-> "base_url, endpoint",
     results |-> st,
     errors |-> FirstErrors(errs, SavedErrors)]

\* main, lines 269-270: run_test returned statistics, print_report
MainReport ==
    /\ run_pc = "done"
    /\ stats # NoStats
    /\ log_buffer' = log_buffer \o PrintReportLog(errors)
    /\ run_pc' = "save_report"
    /\ UNCHANGED <<concurrent_users, requests_per_user, use_server_tracking,
                   users, results_response_times, results_status_codes, errors,
                   tester_lock, run_start_time, total_time, stats, outcomes,
                   saved_results, saved_log>>
    /\ UNCHANGED <<serverVars, statVars>>

\* a main that saves a results report although run_test returned None
MainNoDataSavingReport ==
    /\ run_pc = "done"
    /\ stats = NoStats
    /\ log_buffer' = Append(log_buffer, "test failed")
    /\ run_pc' = "save_report"
    /\ UNCHANGED <<concurrent_users, requests_per_user, use_server_tracking,
                   users, results_response_times, results_status_codes, errors,
                   tester_lock, run_start_time, total_time, stats, outcomes,
                   saved_results, saved_log>>
    /\ UNCHANGED <<serverVars, statVars>>

\* main, lines 273-274: run_test returned None
MainNoData ==
    /\ run_pc = "done"
    /\ stats = NoStats
    /\ log_buffer' = Append(log_buffer, "test failed")
    /\ run_pc' = "save_logs"
    /\ UNCHANGED <<concurrent_users, requests_per_user, use_server_tracking,
                   users, results_response_times, results_status_codes, errors,
                   tester_lock, run_start_time, total_time, stats, outcomes,
                   saved_results, saved_log>>
    /\ UNCHANGED <<serverVars, statVars>>

\* save_report: the file is written, or the failure is logged
SaveReport ==
    /\ run_pc = "save_report"
    /\ \E io_ok \in BOOLEAN :
            IF io_ok
            THEN /\ saved_results' = ReportFile(stats, errors)
                 /\ log_buffer' = Append(log_buffer, "results saved")
            ELSE /\ saved_results' = saved_results
                 /\ log_buffer' = Append(log_buffer, "could not save results")
    /\ run_pc' = "save_logs"
    /\ UNCHANGED <<concurrent_users, requests_per_user, use_server_tracking,
                   users, results_response_times, results_status_codes, errors,
                   tester_lock, run_start_time, total_time, stats, outcomes,
                   saved_log>>
    /\ UNCHANGED <<serverVars, statVars>>

\* save_logs: the buffer is written and the success logged, or the failure
\* is printed (not logged)
SaveLogs ==
    /\ run_pc = "save_logs"
    /\ \E io_ok \in BOOLEAN :
            IF io_ok
            THEN /\ saved_log' = [lines |-> log_buffer]
                 /\ log_buffer' = Append(log_buffer, "logs saved")
            ELSE UNCHANGED <<saved_log, log_buffer>>
    /\ run_pc' = "exit"
    /\ UNCHANGED <<concurrent_users, requests_per_user, use_server_tracking,
                   users, results_response_times, results_status_codes, errors,
                   tester_lock, run_start_time, total_time, stats, outcomes,
                   saved_results>>
    /\ UNCHANGED <<serverVars, statVars>>

\* --------------------------------------------------- the generator, one run
InitGen == InitServer /\ InitGenerator /\ IdleReducer

NextGen ==
    \/ Tick
    \/ SignalStart
    \/ \E u \in UserIds : SpawnUser(u)
    \/ JoinAll
    \/ SignalStop
    \/ ComputeStats
    \/ \E u \in UserIds : SendRequest(u)
    \/ \E u \in UserIds, st \in GetStatuses : ReceiveResponse(u, st)
    \/ \E u \in UserIds : ReceiveException(u)
    \/ \E u \in UserIds : RecordTime(u)
    \/ \E u \in UserIds : RecordStatus(u)
    \/ \E u \in UserIds : RecordError(u)
    \/ MainReport
    \/ MainNoData
    \/ SaveReport
    \/ SaveLogs

SpecGen == InitGen /\ [][NextGen]_vars

\* the steps of run_test and of its user threads (every step but the clock's)
NextGenWork ==
    \/ SignalStart
    \/ \E u \in UserIds : SpawnUser(u)
    \/ JoinAll
    \/ SignalStop
    \/ ComputeStats
    \/ \E u \in UserIds : SendRequest(u)
    \/ \E u \in UserIds, st \in GetStatuses : ReceiveResponse(u, st)
    \/ \E u \in UserIds : ReceiveException(u)
    \/ \E u \in UserIds : RecordTime(u)
    \/ \E u \in UserIds : RecordStatus(u)
    \/ \E u \in UserIds : RecordError(u)
    \/ MainReport
    \/ MainNoData
    \/ SaveReport
    \/ SaveLogs

\* one run under a scheduler that keeps running the threads, every network
\* call returning or raising (requests.get has timeout=10, the signals 5)
SpecGenFair == InitGen /\ [][NextGen]_vars /\ WF_vars(NextGenWork)


\* ------------------------------- one run of the generator against the server
\* The requests of run_test with server tracking on, served by the server:
\* the start signal, the GETs of the users (user u on thread u + 1), the stop
\* signal.  The generator's own bookkeeping of times and statuses is left to
\* SpecGen.
\* the server as an earlier client's accepted start-test left it
ServerAlreadyActive ==
    /\ response_times = <<>>
    /\ concurrent_requests = DefaultUsers
    /\ total_requests = 0
    /\ failed_requests = 0
    /\ start_time = 1
    /\ test_active = TRUE
    /\ metrics_lock = 0
    /\ now = 1
    /\ req = [r \in Slots |-> IdleReq]
    /\ arrived = 1
    /\ csv_exists = FALSE
    /\ csv_rows = <<>>
    /\ last_report = NoReply
    /\ last_metrics = NoReply
    /\ report_log = <<>>
    /\ trail = ""
    /\ failed_samples = [e \in Endpoints |-> 0]

InitRun ==
    /\ InitServer \/ ServerAlreadyActive
    /\ IdleReducer
    /\ concurrent_users \in 1..MaxSimUsers
    /\ requests_per_user \in 0..MaxRequestsPerUser
    /\ use_server_tracking = TRUE
    /\ run_pc = "start"
    /\ users = [u \in 0..(concurrent_users - 1) |-> UnbornUser]
    /\ results_response_times = <<>>
    /\ results_status_codes = <<>>
    /\ errors = <<>>
    /\ tester_lock = 0
    /\ run_start_time = NoneTime
    /\ total_time = NoneTime
    /\ log_buffer = <<>>
    /\ stats = NoStats
    /\ outcomes = [id \in 0..(concurrent_users * requests_per_user - 1) |-> -1]
    /\ saved_results = NoFile
    /\ saved_log = NoFile

\* the client sends a request for endpoint e with body p, served by thread r
RunSend(r, e, p) ==
    /\ req[r].pc = "idle"
    /\ req' = [req EXCEPT ![r] = EnteredRequest(e, p)]
    /\ arrived' = arrived + 1
    /\ UNCHANGED <<collectorVars, metrics_lock, now, csv_exists, csv_rows,
                   last_report, last_metrics, report_log, trail, failed_samples>>
    /\ UNCHANGED statVars

\* run_test, lines 86-90: POST /stress_test/start with concurrentUsers
RunSendStart ==
    /\ run_pc = "start"
    /\ RunSend(1, "start_stress_test", <<concurrent_users>>)
    /\ run_pc' = "await_start"
    /\ UNCHANGED <<concurrent_users, requests_per_user, use_server_tracking,
                   users, results_response_times, results_status_codes, errors,
                   tester_lock, run_start_time, total_time, log_buffer, stats,
                   outcomes, saved_results, saved_log>>

\* run_test, lines 91-98: the start signal is answered (200 for a
\* concurrentUsers in range), then start_time is read
RunStartAnswered ==
    /\ run_pc = "await_start"
    /\ req[1].pc = "idle"
    /\ log_buffer' = Append(log_buffer, "tracking started")
    /\ run_start_time' = now
    /\ run_pc' = "spawn"
    /\ UNCHANGED <<concurrent_users, requests_per_user, use_server_tracking,
                   users, results_response_times, results_status_codes, errors,
                   tester_lock, total_time, stats, outcomes, saved_results,
                   saved_log>>
    /\ UNCHANGED <<serverVars, statVars>>

\* make_request: user u sends its GET
RunSendGet(u) ==
    /\ users[u].pc = "loop"
    /\ RunSend(u + 1, "get_attendance_stats", <<>>)
    /\ users' = [users EXCEPT ![u].pc = "call", ![u].request_start = now]
    /\ UNCHANGED <<concurrent_users, requests_per_user, use_server_tracking,
                   run_pc, results_response_times, results_status_codes,
                   errors, tester_lock, run_start_time, total_time, log_buffer,
                   stats, outcomes, saved_results, saved_log>>

\* make_request: the GET of user u is answered, and the user goes on
RunGetAnswered(u) ==
    /\ users[u].pc = "call"
    /\ req[u + 1].pc = "idle"
    /\ users' = NextIteration(u)
    /\ outcomes' = [outcomes EXCEPT ![RequestId(u)] = 200]
    /\ UNCHANGED <<concurrent_users, requests_per_user, use_server_tracking,
                   run_pc, results_response_times, results_status_codes,
                   errors, tester_lock, run_start_time, total_time, log_buffer,
                   stats, saved_results, saved_log>>
    /\ UNCHANGED <<serverVars, statVars>>

\* run_test, lines 124-126: POST /stress_test/stop
RunSendStop ==
    /\ run_pc = "stop"
    /\ use_server_tracking
    /\ RunSend(1, "stop_stress_test", <<>>)
    /\ run_pc' = "await_stop"
    /\ UNCHANGED <<concurrent_users, requests_per_user, use_server_tracking,
                   users, results_response_times, results_status_codes, errors,
                   tester_lock, run_start_time, total_time, log_buffer, stats,
                   outcomes, saved_results, saved_log>>

\* run_test, lines 127-130: the stop signal is answered 200
RunStopAnswered ==
    /\ run_pc = "await_stop"
    /\ req[1].pc = "idle"
    /\ log_buffer' = Append(log_buffer, "tracking stopped")
    /\ run_pc' = "stats"
    /\ UNCHANGED <<concurrent_users, requests_per_user, use_server_tracking,
                   users, results_response_times, results_status_codes, errors,
                   tester_lock, run_start_time, total_time, stats, outcomes,
                   saved_results, saved_log>>
    /\ UNCHANGED <<serverVars, statVars>>

NextRun ==
    \/ Tick
    \/ RunSendStart
    \/ RunStartAnswered
    \/ \E u \in UserIds : SpawnUser(u)
    \/ \E u \in UserIds : RunSendGet(u)
    \/ \E u \in UserIds : RunGetAnswered(u)
    \/ JoinAll
    \/ RunSendStop
    \/ RunStopAnswered
    \/ \E r \in Slots : StartStressTest(r)
    \/ \E r \in Slots : StopStressTest(r)
    \/ \E r \in Slots : GetAttendanceStats(r)
    \/ \E r \in Slots : AfterRequest(r)
    \/ \E r \in Slots : AfterRequestAppend(r)
    \/ \E r \in Slots : AfterRequestCount(r)

SpecRun == InitRun /\ [][NextRun]_vars

\* ------------------------------------------- main on its own, after a run
\* run_test has joined the one user of a run whose first `failures` requests
\* failed, by an exception or by a 404, followed by `successes` requests
\* answered 200, each taking no measurable time; the statistics come next
InitAfterRun(failures, by_exception, successes) ==
    LET total == failures + successes
        sampled == IF by_exception THEN successes ELSE total
        codes == [k \in 1..sampled |->
                    IF ~by_exception /\ k <= failures THEN 404 ELSE 200]
        times == [k \in 1..sampled |-> 0]
    IN  /\ concurrent_users = 1
        /\ requests_per_user = total
        /\ use_server_tracking = FALSE
        /\ run_pc = "stats"
        /\ users = [u \in 0..0 |-> [pc |-> "done", i |-> total,
                                     request_start |-> NoneTime,
                                     elapsed |-> NoneTime, status_code |-> 0]]
        /\ results_response_times = times
        /\ results_status_codes = codes
        /\ errors = [k \in 1..failures |->
                        IF by_exception
                        THEN [request_id |-> k - 1, error |-> "exception",
                              response_time |-> 0]
                        ELSE [request_id |-> k - 1, status_code |-> 404,
                              response_time |-> 0]]
        /\ tester_lock = 0
        /\ run_start_time = now
        /\ total_time = 0
        /\ log_buffer = <<>>
        /\ stats = NoStats
        /\ outcomes = [id \in 0..(total - 1) |->
                        IF id < failures THEN (IF by_exception THEN 0 ELSE 404)
                        ELSE 200]
        /\ saved_results = NoFile
        /\ saved_log = NoFile

InitSave ==
    /\ InitServer
    /\ IdleReducer
    /\ \E failures \in 0..MaxErrors, by_exception \in BOOLEAN, successes \in 0..1 :
            InitAfterRun(failures, by_exception, successes)

NextSave == ComputeStats \/ MainReport \/ MainNoData \/ SaveReport \/ SaveLogs

SpecSave == InitSave /\ [][NextSave]_vars

\* ------------------------------------------------ the reducers on their own
\* duration sequences of every length up to MaxSampleLen: constant ones,
\* and unsorted ones with repeated values
SampleTimes(n, stride, modulus) == [i \in 1..n |-> ((i * stride) % modulus) + 1]

\* short sequences of widely spread durations, in and out of order
SpreadTimes == {<<10, 20, 30, 40, 50>>, <<30, 10, 50, 20, 40>>, <<10, 20>>,
                <<20, 10>>, <<40, 10, 10, 20>>}

InitReducer ==
    /\ \/ \E n \in 1..MaxSampleLen, stride \in {1, 2}, modulus \in {1, 3, 5} :
                sample_times = SampleTimes(n, stride, modulus)
       \/ sample_times \in SpreadTimes
    /\ sample_stats = <<>>

\* get_scalability_metrics on one endpoint's times
ReduceForMetrics ==
    /\ sample_stats' = [by |-> "metrics", entry |-> MetricsEntry(sample_times)]
    /\ UNCHANGED <<sample_times, serverVars, genVars>>

\* generate_scalability_report on one endpoint's times
ReduceForReport ==
    /\ \E elapsed \in {0, 2}, failed \in {0, 1} :
            sample_stats' = [by |-> "report",
                             entry |-> ReportEntry(sample_times, elapsed, failed)]
    /\ UNCHANGED <<sample_times, serverVars, genVars>>

\* run_test's statistics on the run's times, every request answered 200
ReduceForRun ==
    /\ \E tt \in {0, 2} :
            sample_stats' = [by |-> "run",
                             entry |-> RunStats(sample_times,
                                                [i \in DOMAIN sample_times |-> 200],
                                                tt)]
    /\ UNCHANGED <<sample_times, serverVars, genVars>>

InitStats == InitServer /\ IdleGenerator /\ InitReducer

NextStats == ReduceForMetrics \/ ReduceForReport \/ ReduceForRun

SpecStats == InitStats /\ [][NextStats]_vars

\* ------------------------------------------- the server, a long run, serial
NextLong ==
    \/ Tick
    \/ \E e \in Endpoints : \E p \in Payloads(e) :
            BeforeRequest(1, e, p, MaxArrivalsLong)
    \/ StartStressTest(1)
    \/ StopStressTest(1)
    \/ GetScalabilityMetrics(1)
    \/ GenerateScalabilityReport(1)
    \/ GetAttendanceStats(1)
    \/ AfterRequest(1)
    \/ AfterRequestAppend(1)
    \/ AfterRequestCount(1)

SpecLong == Init /\ [][NextLong]_vars


\* ================================================================= claims
\* a step of request r: the view function of endpoint e returns
ViewReturns(r, e) ==
    req[r].pc = "view" /\ req[r].endpoint = e /\ req'[r].pc = "after_request"

\* a step of request r: its response is delivered
Completes(r) == req[r].pc # "idle" /\ req'[r].pc = "idle"

\* request r is a start-test request whose concurrentUsers is out of range
RejectedStart(r) ==
    /\ req[r].endpoint = "start_stress_test"
    /\ OutOfRange(ConcurrentUsersOf(req[r].payload))

\* request r is a start-test request whose concurrentUsers is in 1..1000
AcceptedStart(r) ==
    /\ req[r].endpoint = "start_stress_test"
    /\ ~OutOfRange(ConcurrentUsersOf(req[r].payload))

\* C1: whenever _metrics_lock is free, total_requests is the number of
\* samples stored over all endpoints, for every interleaving of start-test,
\* stop-test and intercepted requests.
C1_TotalIsSampleCount ==
    metrics_lock = 0 => total_requests = SampleCount(response_times)

\* C1 happens: a test was restarted while a request of the earlier run was in
\* flight, and samples of two endpoints are held, the lock being free
C1_Witness ==
    /\ metrics_lock = 0
    /\ arrived = MaxArrivals
    /\ Len(response_times) = 2
    /\ total_requests = 2

\* C2: while test_active stays false, no sample is appended and neither
\* total_requests nor failed_requests changes, requests in flight included.
C2_FrozenWhileStopped ==
    [][(~test_active /\ ~test_active') =>
            UNCHANGED <<response_times, total_requests, failed_requests>>]_vars

\* C3: a start-test request with concurrentUsers below 1 or above 1000 is
\* answered 400, and no step taken while it is being served (it is the only
\* request in flight) changes the collector's state.
C3_RejectedStartChangesNothing ==
    [][RejectedStart(1) =>
            /\ UNCHANGED collectorVars
            /\ ViewReturns(1, "start_stress_test") => req'[1].status_code = 400]_vars

\* C4: when an accepted start-test request, the only request in flight,
\* completes, the Sample Set is empty, both counters are 0, the test is
\* active and the concurrent target is the supplied value.
C4_AcceptedStartRestartsCleanly ==
    [][(AcceptedStart(1) /\ Completes(1)) =>
            /\ response_times' = <<>>
            /\ total_requests' = 0
            /\ failed_requests' = 0
            /\ test_active'
            /\ concurrent_requests' = ConcurrentUsersOf(req[1].payload)]_vars


\* two report replies agree in status, counters, success rate and every
\* per-endpoint statistic
SameReducedReport(a, b) ==
    /\ a.status_code = b.status_code
    /\ a.status_code = 200 =>
        /\ a.test_summary.concurrent_users = b.test_summary.concurrent_users
        /\ a.test_summary.total_requests = b.test_summary.total_requests
        /\ a.test_summary.failed_requests = b.test_summary.failed_requests
        /\ a.test_summary.success_rate = b.test_summary.success_rate
        /\ Len(a.endpoint_analysis) = Len(b.endpoint_analysis)
        /\ \A i \in DOMAIN a.endpoint_analysis :
            LET x == a.endpoint_analysis[i]
                y == b.endpoint_analysis[i]
            IN  /\ x.endpoint = y.endpoint
                /\ x.metrics.total_requests = y.metrics.total_requests
                /\ x.metrics.mean_response_time_ms = y.metrics.mean_response_time_ms
                /\ x.metrics.median_response_time_ms = y.metrics.median_response_time_ms
                /\ x.metrics.p95_response_time_ms = y.metrics.p95_response_time_ms
                /\ x.metrics.p99_response_time_ms = y.metrics.p99_response_time_ms
                /\ x.metrics.throughput_rps = y.metrics.throughput_rps
                /\ x.metrics.error_rate = y.metrics.error_rate

\* C5: served one at a time, the requests stop-test, report, stop-test,
\* report yield two reports equal in counters, success rate and every
\* per-endpoint statistic, throughput included.
C5_StopTwiceSameReport ==
    [][(ViewReturns(1, "generate_scalability_report") /\ trail = "SRS") =>
            SameReducedReport(last_report, last_report')]_vars

\* the network call of every request has returned a status below 400
AllAnsweredOk ==
    \A id \in DOMAIN outcomes : outcomes[id] > 0 /\ outcomes[id] < ErrorStatus

\* the requests whose network call failed or returned a status of 400 or more
FailedOutcomes == {id \in DOMAIN outcomes : outcomes[id] = 0 \/ outcomes[id] >= ErrorStatus}

\* C6: C users of R requests each, every request answered below 400: once
\* run_test has returned, total_requests = C*R, successful_requests = C*R
\* and failed_requests = 0, whatever the interleaving of the user threads.
C6_AllSuccessCounts ==
    (run_pc = "done" /\ AllAnsweredOk) =>
        /\ Len(results_response_times) = concurrent_users * requests_per_user
        /\ concurrent_users * requests_per_user > 0 =>
            /\ stats # NoStats
            /\ stats.total_requests = concurrent_users * requests_per_user
            /\ stats.successful_requests = concurrent_users * requests_per_user
            /\ stats.failed_requests = 0

\* C6 happens: a run of the most users and requests per user, every request
\* answered below 400, has returned its statistics
C6_Witness ==
    /\ run_pc = "done"
    /\ concurrent_users = MaxSimUsers
    /\ requests_per_user = MaxRequestsPerUser
    /\ AllAnsweredOk
    /\ stats # NoStats
    /\ stats.total_requests = MaxSimUsers * MaxRequestsPerUser

\* C7: every request, one that fails at the network level included, adds one
\* sample to the generator's Sample Set, so after run_test the reported
\* total_requests is C*R and failed_requests counts the requests answered
\* 400 or more or failed at the network level.
C7_EveryRequestSampled ==
    run_pc = "done" =>
        /\ Len(results_response_times) = concurrent_users * requests_per_user
        /\ stats # NoStats =>
            /\ stats.total_requests = concurrent_users * requests_per_user
            /\ stats.failed_requests = Cardinality(FailedOutcomes)

\* the endpoints holding at least one sample
EndpointsWithSamples ==
    {response_times[i].endpoint : i \in {j \in DOMAIN response_times :
                                            response_times[j].times # <<>>}}

\* the samples held for endpoint e
TimesOf(e) ==
    LET i == CHOOSE j \in DOMAIN response_times : response_times[j].endpoint = e
    IN  response_times[i].times

\* C8: report() answers 400 and leaves the log file alone exactly when no
\* sample is held; with a sample held it answers 200 with one analysis entry
\* per endpoint holding samples, each over at least one sample.
C8_NoDataIffNoSample ==
    [][\A r \in Slots : ViewReturns(r, "generate_scalability_report") =>
            IF SampleCount(response_times) = 0
            THEN /\ req'[r].status_code = 400
                 /\ last_report'.status_code = 400
                 /\ UNCHANGED <<csv_exists, csv_rows>>
            ELSE /\ req'[r].status_code = 200
                 /\ last_report'.status_code = 200
                 /\ Len(last_report'.endpoint_analysis) =
                        Cardinality(EndpointsWithSamples)
                 /\ \A i \in DOMAIN last_report'.endpoint_analysis :
                        LET a == last_report'.endpoint_analysis[i]
                        IN  /\ a.endpoint \in EndpointsWithSamples
                            /\ a.metrics.total_requests = Len(TimesOf(a.endpoint))
                            /\ a.metrics.total_requests >= 1]_vars

\* C8 happens: a report over two endpoints has just been answered 200
C8_Witness ==
    /\ last_report.status_code = 200
    /\ Len(last_report.endpoint_analysis) = 2
    /\ \E r \in Slots : req[r].endpoint = "generate_scalability_report"
                        /\ req[r].pc = "after_request"

RECURSIVE RowsOfReports(_)
\* the rows of a sequence of reports, report after report
RowsOfReports(reports) ==
    IF reports = <<>> THEN <<>>
    ELSE ReportRows(Head(reports)) \o RowsOfReports(Tail(reports))

IsPrefix(s, t) == Len(s) <= Len(t) /\ \A i \in DOMAIN s : s[i] = t[i]

\* the log file holds one header row, then the rows of the saved reports in
\* the order they were generated
LogIsHeaderThenReports ==
    IF report_log = <<>>
    THEN ~csv_exists /\ csv_rows = <<>>
    ELSE csv_exists /\ csv_rows = <<HeaderRow>> \o RowsOfReports(report_log)

\* C9: starting with no log file, after k saved reports the file is one
\* header row followed by the rows of the 1st, ..., k-th report in that
\* order, one row per endpoint per report; and the file after a step always
\* extends the file before it.
C9_LogAppendOnly ==
    /\ []LogIsHeaderThenReports
    /\ [][IsPrefix(csv_rows, csv_rows')]_vars

\* C9 happens: two reports were saved, the second over more endpoints
C9_Witness ==
    /\ Len(report_log) = 2
    /\ Len(csv_rows) >= 4

\* C10: for a duration sequence of length n >= 1, in the server metrics, the
\* server report and the generator statistics: p95 index <= p99 index <= n-1,
\* p95 value <= p99 value <= max, and for n = 1 both are the single value.
C10_PercentilesOrdered ==
    sample_stats # <<>> =>
        LET n == Len(sample_times)
            e == sample_stats.entry
            p95 == IF sample_stats.by = "metrics" THEN e.p95_response_time
                   ELSE e.p95_response_time_ms
            p99 == IF sample_stats.by = "metrics" THEN e.p99_response_time
                   ELSE e.p99_response_time_ms
            max == IF sample_stats.by = "metrics" THEN e.max_response_time
                   ELSE e.max_response_time_ms
            unit == IF sample_stats.by = "metrics" THEN 1 ELSE MsPerSecond
        IN  /\ P95Index(n) <= P99Index(n)
            /\ P99Index(n) <= n - 1
            /\ p95 <= p99
            /\ p99 <= max
            /\ max = MaxSeq(sample_times) * unit
            /\ n = 1 => (p95 = sample_times[1] * unit /\ p99 = sample_times[1] * unit)

\* C10 happens: a sequence long enough for the three ranks to differ
\* (p95 index < p99 index < n - 1) was reduced for a report
C10_Witness ==
    /\ sample_stats # <<>>
    /\ sample_stats.by = "report"
    /\ P95Index(Len(sample_times)) < P99Index(Len(sample_times))
    /\ P99Index(Len(sample_times)) < Len(sample_times) - 1
    /\ sample_stats.entry.p95_response_time_ms <= sample_stats.entry.p99_response_time_ms

\* x is the element of rank k (from 0) of times in ascending order: fewer
\* than k + 1 elements are below x, and at least k + 1 are at most x
HasRank(times, k, x) ==
    /\ \E i \in DOMAIN times : times[i] = x
    /\ Cardinality({i \in DOMAIN times : times[i] < x}) <= k
    /\ k < Cardinality({i \in DOMAIN times : times[i] <= x})

\* sum of (n*t - sum)^2 over the n durations t: n^2 times the squared deviations
RECURSIVE ScaledSquaredDeviations(_, _, _)
ScaledSquaredDeviations(times, n, total) ==
    IF times = <<>> THEN 0
    ELSE (n * Head(times) - total) * (n * Head(times) - total)
            + ScaledSquaredDeviations(Tail(times), n, total)

\* the durations of the worked example
ExampleDurations == <<10, 20, 30, 40, 50>>

\* C11: for every non-empty duration sequence the entry of the server report
\* has mean = sum/n, median = sorted[n div 2], p95 = sorted[floor(0.95 n)],
\* p99 = sorted[floor(0.99 n)] and variance = squared deviations from the
\* mean over n; [10,20,30,40,50] gives mean 30, median 30, p95 50, p99 50,
\* variance 200.
C11_ReportMatchesReference ==
    (sample_stats # <<>> /\ sample_stats.by = "report") =>
        LET n == Len(sample_times)
            total == SumSeq(sample_times)
            e == sample_stats.entry
        IN  /\ e.total_requests = n
            /\ e.mean_response_time_ms[1] * n
                    = e.mean_response_time_ms[2] * total * MsPerSecond
            /\ \E x \in {sample_times[i] : i \in DOMAIN sample_times} :
                    /\ HasRank(sample_times, n \div 2, x)
                    /\ e.median_response_time_ms = x * MsPerSecond
            /\ \E x \in {sample_times[i] : i \in DOMAIN sample_times} :
                    /\ HasRank(sample_times, (95 * n) \div 100, x)
                    /\ e.p95_response_time_ms = x * MsPerSecond
            /\ \E x \in {sample_times[i] : i \in DOMAIN sample_times} :
                    /\ HasRank(sample_times, (99 * n) \div 100, x)
                    /\ e.p99_response_time_ms = x * MsPerSecond
            /\ e.variance = Frac(ScaledSquaredDeviations(sample_times, n, total),
                                 n * n * n)
            /\ sample_times = ExampleDurations =>
                    /\ e.mean_response_time_ms = <<30 * MsPerSecond, 1>>
                    /\ e.median_response_time_ms = 30 * MsPerSecond
                    /\ e.p95_response_time_ms = 50 * MsPerSecond
                    /\ e.p99_response_time_ms = 50 * MsPerSecond
                    /\ e.variance = <<200, 1>>

\* C11 happens: the worked example was reduced for a report
C11_Witness ==
    /\ sample_stats # <<>>
    /\ sample_stats.by = "report"
    /\ sample_times = ExampleDurations
    /\ sample_stats.entry.variance = <<200, 1>>

\* C12: for every duration sequence with n >= 1, run_test's statistics and
\* the server report's entry have the same mean, the same median, the same
\* p95 and p99 and the same variance (so the same standard deviation).
C12_GeneratorMatchesServer ==
    (sample_stats # <<>> /\ sample_stats.by = "run") =>
        LET g == sample_stats.entry
            srv == ReportEntry(sample_times, 0, 0)
        IN  /\ g.mean_response_time_ms = srv.mean_response_time_ms
            /\ g.median_response_time_ms = <<srv.median_response_time_ms, 1>>
            /\ g.p95_response_time_ms = srv.p95_response_time_ms
            /\ g.p99_response_time_ms = srv.p99_response_time_ms
            /\ g.variance = srv.variance

\* C13: in every report, served with no other request in flight, each
\* endpoint's error_rate is the number of that endpoint's samples whose status
\* was 400 or more over that endpoint's sample count, and so lies in [0, 1].
C13_ErrorRatePerEndpoint ==
    [][(ViewReturns(1, "generate_scalability_report")
            /\ last_report'.status_code = 200) =>
        \A i \in DOMAIN last_report'.endpoint_analysis :
            LET a == last_report'.endpoint_analysis[i]
            IN  /\ a.metrics.error_rate =
                        Frac(failed_samples[a.endpoint], a.metrics.total_requests)
                /\ a.metrics.error_rate[1] <= a.metrics.error_rate[2]]_vars

\* request r is a metrics() or a report() request being served
ReadInFlight(r) ==
    /\ req[r].pc # "idle"
    /\ req[r].endpoint \in {"get_scalability_metrics", "generate_scalability_report"}

\* C14: no step taken while a metrics() or report() request is being served
\* (it is the only request in flight) changes the Sample Set, total_requests,
\* failed_requests, the concurrent target, start_time or the active flag,
\* whether the test is active or stopped.
C14_ReadsChangeNothing ==
    [][ReadInFlight(1) => UNCHANGED collectorVars]_vars

\* a step in which the start (stop) signal was sent and the reply was not a
\* 200: run_test logs its success message exactly for a 200
StartSignalFails ==
    /\ run_pc = "start" /\ run_pc' = "spawn" /\ use_server_tracking
    /\ log_buffer' # Append(log_buffer, "tracking started")
StopSignalFails ==
    /\ run_pc = "stop" /\ run_pc' = "stats" /\ use_server_tracking
    /\ log_buffer' # Append(log_buffer, "tracking stopped")

\* every user was launched and has been through its R requests
WorkloadCompleted ==
    /\ \A u \in UserIds : users[u].pc = "done" /\ users[u].i = requests_per_user
    /\ \A id \in DOMAIN outcomes : outcomes[id] # -1

\* C15: whenever the start or the stop signal fails (connection error,
\* timeout or a reply other than 200), run_test logs a warning; and the run
\* still launches all C users, completes the C*R requests and returns the
\* client-side statistics of the samples it holds.
C15_DegradeNeverAbort ==
    /\ [][/\ StartSignalFails =>
                log_buffer' = Append(log_buffer, "could not start tracking")
          /\ StopSignalFails =>
                log_buffer' = Append(log_buffer, "could not stop tracking")]_vars
    /\ [](run_pc = "done" =>
            /\ WorkloadCompleted
            /\ results_response_times # <<>> => stats # NoStats)

\* C16: the stop signal is sent and the statistics are computed only after
\* every one of the C user threads has finished all R of its requests; and
\* no user request is issued before the start signal has been answered.
C16_JoinAllOrdering ==
    /\ run_pc \in {"stop", "stats", "done"} =>
            \A u \in UserIds : users[u].pc = "done" /\ users[u].i = requests_per_user
    /\ stats # NoStats =>
            \A u \in UserIds : users[u].pc = "done" /\ users[u].i = requests_per_user
    /\ run_pc = "start" =>
            /\ \A u \in UserIds : users[u].pc = "unborn"
            /\ \A id \in DOMAIN outcomes : outcomes[id] = -1

\* C16 happens: with server tracking on and the start signal answered 200,
\* the most users have all finished the most requests and the stop signal
\* has been sent
C16_Witness ==
    /\ run_pc = "stats"
    /\ use_server_tracking
    /\ log_buffer = <<"tracking started", "tracking stopped">>
    /\ concurrent_users = MaxSimUsers
    /\ requests_per_user = MaxRequestsPerUser
    /\ Len(results_response_times) = MaxSimUsers * MaxRequestsPerUser

\* C17: every network call returning or timing out, run_test eventually
\* returns; by then each user has issued exactly R requests, failed or
\* timed-out ones included; and a user starts request i+1 only after its
\* requests 0..i have finished.
C17_RunCompletesWorkload ==
    /\ <>(run_pc = "done")
    /\ [](run_pc = "done" => WorkloadCompleted)
    /\ [][\A u \in UserIds :
            (users[u].pc = "loop" /\ users'[u].pc = "call") =>
                /\ users[u].i < requests_per_user
                /\ outcomes[RequestId(u)] = -1
                /\ \A j \in 0..(users[u].i - 1) :
                        outcomes[u * requests_per_user + j] # -1]_vars

\* C17 happens: a run of the most users and requests has returned although
\* the first request of the first user failed at the network level
C17_Witness ==
    /\ run_pc = "done"
    /\ concurrent_users = MaxSimUsers
    /\ requests_per_user = MaxRequestsPerUser
    /\ outcomes[0] = 0
    /\ WorkloadCompleted

\* the sample appended last for endpoint e in the metrics dict d
LastSampleOf(d, e) ==
    LET i == CHOOSE j \in DOMAIN d : d[j].endpoint = e
    IN  d[i].times[Len(d[i].times)]

\* C18: for any interleaving of concurrent requests, the elapsed value a
\* request computes on exit is the clock at its exit minus the clock at its
\* own entry, and that value is the one appended for it.
C18_TimingIsolation ==
    [][\A r \in Slots :
        /\ (req[r].pc = "after_request" /\ req'[r].pc = "append") =>
                req'[r].response_time = now - req[r].entered_at
        /\ (req[r].pc = "append" /\ req'[r].pc = "append") =>
                req'[r].response_time = req[r].response_time
        /\ (req[r].pc = "append" /\ req'[r].pc = "count") =>
                /\ HasKey(response_times', req[r].endpoint)
                /\ LastSampleOf(response_times', req[r].endpoint)
                        = req[r].response_time]_vars

\* C18 happens: the sample of a request that took one tick has been appended
\* while another stamped request, entered at another time, is in flight
C18_Witness ==
    \E r, q \in Slots :
        /\ r # q
        /\ req[r].pc = "count"
        /\ req[r].response_time = 1
        /\ req[q].pc \in {"view", "after_request", "append"}
        /\ req[q].has_start_time
        /\ req[q].entered_at # req[r].entered_at

\* C19: at most one sample is appended per request; a sample is appended for
\* a request only as one append by that request, after its exit hook found
\* the test active and the request stamped at an entry made while the test
\* was active; a request that entered while the test was inactive is never
\* recorded, even if the test is active when it exits.
C19_AtMostOneSample ==
    /\ [](\A r \in Slots :
            /\ req[r].samples <= 1
            /\ ~req[r].entered_active =>
                    req[r].samples = 0 /\ req[r].pc \notin {"append", "count"})
    /\ [][/\ \A r \in Slots :
                (req[r].pc = "after_request" /\ req'[r].pc = "append") =>
                    test_active /\ req[r].entered_active
          /\ SampleCount(response_times') > SampleCount(response_times) =>
                /\ SampleCount(response_times') = SampleCount(response_times) + 1
                /\ \E r \in Slots :
                        /\ req[r].pc = "append"
                        /\ req[r].samples = 0 /\ req'[r].samples = 1
                        /\ \A q \in Slots \ {r} : req'[q].samples = req[q].samples]_vars

\* C19 happens: a request that entered before the test was started is at its
\* exit with the test active, while a request that entered after the start
\* has had its one sample appended
C19_Witness ==
    \E r, q \in Slots :
        /\ req[r].pc = "after_request"
        /\ ~req[r].entered_active
        /\ test_active
        /\ req[q].samples = 1

\* C20: every metrics() response, whatever the other requests are doing, has
\* total_requests equal to the sum of the per-endpoint counts it reports and
\* failed_requests <= total_requests.
C20_SnapshotConsistent ==
    last_metrics.status_code = 200 =>
        /\ last_metrics.total_requests =
                SumSeq([i \in DOMAIN last_metrics.endpoint_metrics |->
                            last_metrics.endpoint_metrics[i].metrics.total_requests])
        /\ last_metrics.failed_requests <= last_metrics.total_requests

\* C20 happens: a metrics() response has just been produced while another
\* request, past its exit check, is waiting to append its sample
C20_Witness ==
    \E r, q \in Slots :
        /\ req[r].endpoint = "get_scalability_metrics"
        /\ req[r].pc = "after_request"
        /\ last_metrics.status_code = 200
        /\ last_metrics.test_active
        /\ req[q].pc = "append"

\* C21: served with no other request in flight, a stop-test request changes
\* nothing but the active flag: no step of it changes the Sample Set,
\* total_requests, failed_requests, the concurrent target or start_time; it
\* leaves the test inactive; sent while inactive it changes no collector
\* state at all; and it is answered 200 with status "stopped".
C21_StopChangesOnlyActiveFlag ==
    [][(req[1].pc # "idle" /\ req[1].endpoint = "stop_stress_test") =>
        /\ UNCHANGED <<response_times, total_requests, failed_requests,
                       concurrent_requests, start_time>>
        /\ ~test_active => UNCHANGED collectorVars
        /\ ViewReturns(1, "stop_stress_test") =>
                /\ ~test_active'
                /\ req'[1].status_code = 200
                /\ StopReply.status = "stopped"
        /\ req[1].pc # "view" => ~test_active']_vars

\* C21 happens: a stop sent while the test was active and samples were held
\* has just been handled
C21_Witness ==
    /\ req[1].endpoint = "stop_stress_test"
    /\ req[1].pc = "after_request"
    /\ req[1].entered_active
    /\ ~test_active
    /\ total_requests >= 1

\* a step of the Request Interceptor on behalf of request r: its entry hook,
\* or a step of its exit hook
InterceptorStep(r) ==
    /\ req[r].pc \in {"idle", "after_request", "append", "count"}
    /\ req'[r] # req[r]

\* C22: the exit hook hands on the handler's response unchanged, whether the
\* test is active or not; and no step the Request Interceptor takes while the
\* test is inactive changes the collector's state.
C22_InterceptorPassThrough ==
    [][\A r \in Slots :
        /\ (req[r].pc \in {"after_request", "append", "count"}
                /\ req'[r].pc # "idle") =>
                    req'[r].status_code = req[r].status_code
        /\ (InterceptorStep(r) /\ ~test_active) => UNCHANGED collectorVars]_vars

\* run_test has returned
RunReturned == run_pc \in {"done", "save_report", "save_logs", "exit"}

InSeq(x, seq) == \E i \in DOMAIN seq : seq[i] = x

\* C23: run_test returns None exactly when it holds no sample after all
\* users finished (as it does for C = 0 or R = 0); main then logs the
\* failure and saves the run log, prints and saves no results report, and
\* runs to its end.
C23_NoDataPath ==
    /\ [](RunReturned =>
            /\ (stats = NoStats) <=> (results_response_times = <<>>)
            /\ concurrent_users * requests_per_user = 0 => stats = NoStats)
    /\ [](run_pc = "save_report" => stats # NoStats)
    /\ []((stats = NoStats /\ run_pc \in {"save_logs", "exit"}) =>
            /\ InSeq("test failed", log_buffer)
            /\ ~InSeq("results printed", log_buffer)
            /\ ~InSeq("results saved", log_buffer)
            /\ saved_results = NoFile
            /\ saved_log # NoFile => InSeq("test failed", saved_log.lines))
    /\ <>(run_pc = "exit")

\* C23 happens: every request of the most users failed at the network level,
\* run_test returned None and main has saved the log and ended
C23_Witness ==
    /\ run_pc = "exit"
    /\ stats = NoStats
    /\ concurrent_users = MaxSimUsers
    /\ requests_per_user = MaxRequestsPerUser
    /\ Len(errors) = MaxSimUsers * MaxRequestsPerUser
    /\ saved_log # NoFile
    /\ saved_results = NoFile

\* C24: the results file holds the first 100 error records in the order
\* they were appended; and when more than 100 errors occurred the file shows
\* it: it is not the file save_report writes for the same statistics and
\* those first 100 errors alone.
C24_SavedErrorsCapped ==
    saved_results # NoFile =>
        /\ Len(saved_results.errors) =
                (IF Len(errors) < 100 THEN Len(errors) ELSE 100)
        /\ \A k \in DOMAIN saved_results.errors :
                saved_results.errors[k] = errors[k]
        /\ Len(errors) > 100 =>
                saved_results # ReportFile(stats, FirstErrors(errors, 100))

\* C25: a sample is appended only for a request that entered after the most
\* recent accepted start-test reset: a request other than the start-test
\* itself that entered during an earlier run and finishes after a restart
\* adds no sample to the new run.
C25_RunIsolation ==
    [][\A r \in Slots :
        (req[r].pc = "append" /\ req'[r].pc = "count"
            /\ req[r].endpoint # "start_stress_test") =>
                ~req[r].entered_before_reset]_vars

\* C26: one generator run with server tracking, no other client, start and
\* stop answered 200 and every GET answered: once the stop is answered the
\* server's total_requests is C*R, whether the server's test was inactive or
\* active when the run began.
C26_ServerCountsRunRequests ==
    run_pc = "stats" => total_requests = concurrent_users * requests_per_user

\* a step in which run_test sends the stop signal
StopSignalSent == run_pc = "stop" /\ run_pc' = "stats" /\ use_server_tracking

\* C27: run_test sends the stop signal only if server tracking was requested
\* and its start signal was answered 200.
C27_StopOnlyAfterAcceptedStart ==
    [][StopSignalSent => InSeq("tracking started", log_buffer)]_vars

\* make_request(id) has returned: its user has moved past the request
RequestReturned(id) ==
    users[id \div requests_per_user].i > id % requests_per_user

\* the recorded statuses of 400 or more
ErrorStatusIndexes ==
    {i \in 1..Len(results_status_codes) : results_status_codes[i] >= ErrorStatus}

\* the requests whose make_request returned through the exception handler
ExceptionRequests ==
    {id \in DOMAIN outcomes : outcomes[id] = 0 /\ RequestReturned(id)}

\* C28: whenever the generator's lock is free, response_times and
\* status_codes have equal length, and the number of error records equals
\* the number of recorded statuses >= 400 plus the number of requests that
\* ended in a network exception.
C28_GeneratorBookkeeping ==
    tester_lock = 0 =>
        /\ Len(results_response_times) = Len(results_status_codes)
        /\ Len(errors) = Cardinality(ErrorStatusIndexes)
                            + Cardinality(ExceptionRequests)

\* C28 happens: the lock is free while another user is still working, and
\* the error records hold both a status of 400 or more and an exception
C28_Witness ==
    /\ tester_lock = 0
    /\ ErrorStatusIndexes # {}
    /\ ExceptionRequests # {}
    /\ Len(results_status_codes) >= 2
    /\ \E u \in UserIds : users[u].pc = "call"

====
